---- MODULE Spec2Model ----
(***************************************************************************)
(* Model of src/src/ConfigResolver.ts: the ConfigResolver class with its   *)
(* two public async methods getPrettierOptions and checkHasPrettierConfig  *)
(* and the private resolveConfig.  prettier.resolveConfig (discovery),     *)
(* semver.gte and LoggingService.logInfo are external capabilities: the    *)
(* discovery outcome is chosen by the environment, semver.gte is computed  *)
(* as the semver package computes it, and logInfo appends to a sink.       *)
(*                                                                         *)
(* JavaScript values.  Option values are strings ("4", "true", "avoid");   *)
(* the value of a missing property is UndefinedValue.  An options object   *)
(* is a function from property names to option values.  A value that can   *)
(* be thrown is a record [t |-> type, v |-> text] so that truthiness can   *)
(* be computed.  prettier.Options | null is [null |-> BOOLEAN, fields].    *)
(***************************************************************************)
EXTENDS Integers, Sequences, FiniteSets, TLC

\* Number of getPrettierOptions / checkHasPrettierConfig calls that may be in
\* flight on one ConfigResolver instance.
NumCalls == 2

Calls == 1 .. NumCalls

SingleCall == {1}

----------------------------------------------------------------------------
(* JavaScript object helpers *)

UndefinedValue == "<undefined>"

EmptyObject == [f \in {} |-> UndefinedValue]

\* obj.f : a missing property reads as undefined
Get(obj, f) == IF f \in DOMAIN obj THEN obj[f] ELSE UndefinedValue

\* { ...a, ...b } : own properties of b override those of a
Spread(a, b) ==
  [f \in (DOMAIN a) \cup (DOMAIN b) |-> IF f \in DOMAIN b THEN b[f] ELSE a[f]]

\* values that can be thrown / stored in the error field
Undefined == [t |-> "undefined", v |-> ""]

ErrorObject(msg) == [t |-> "Error", v |-> msg]

\* ToBoolean of a JavaScript value, as the test `if (error)` applies it
Truthy(x) ==
  CASE x.t = "undefined" -> FALSE
    [] x.t = "null"      -> FALSE
    [] x.t = "boolean"   -> x.v = "true"
    [] x.t = "string"    -> x.v # ""
    [] x.t = "number"    -> x.v \notin {"0", "NaN"}
    [] OTHER             -> TRUE

\* prettier.Options | null
NullConfig == [null |-> TRUE, fields |-> EmptyObject]

FoundConfig(o) == [null |-> FALSE, fields |-> o]

\* (x || {}) for x : prettier.Options | null
OrEmpty(cfg) == IF cfg.null THEN EmptyObject ELSE cfg.fields

----------------------------------------------------------------------------
(* semver.gte(prettierVersion, "2.0.0") *)

\* A prerelease identifier is numeric (compared as a number) or
\* alphanumeric (compared in ASCII order; n is its rank in that order).
NumId(n) == [num |-> TRUE, n |-> n]

AlphaId(rank) == [num |-> FALSE, n |-> rank]

\* prettierVersion is the version string of the prettier module in use,
\* which semver parses into major.minor.patch and the prerelease identifiers
Version(ma, mi, pa, pre) ==
  [major |-> ma, minor |-> mi, patch |-> pa, pre |-> pre]

CompareInt(a, b) == IF a < b THEN -1 ELSE IF a > b THEN 1 ELSE 0

compareIdentifiers(a, b) ==
  IF a.num /\ ~b.num THEN -1
  ELSE IF ~a.num /\ b.num THEN 1
  ELSE CompareInt(a.n, b.n)

RECURSIVE comparePreFrom(_, _, _)
comparePreFrom(a, b, i) ==
  IF i > Len(a) /\ i > Len(b) THEN 0
  ELSE IF i > Len(b) THEN 1
  ELSE IF i > Len(a) THEN -1
  ELSE IF a[i] = b[i] THEN comparePreFrom(a, b, i + 1)
  ELSE compareIdentifiers(a[i], b[i])

comparePre(a, b) ==
  IF Len(a.pre) > 0 /\ Len(b.pre) = 0 THEN -1
  ELSE IF Len(a.pre) = 0 /\ Len(b.pre) > 0 THEN 1
  ELSE IF Len(a.pre) = 0 /\ Len(b.pre) = 0 THEN 0
  ELSE comparePreFrom(a.pre, b.pre, 1)

compareMain(a, b) ==
  IF a.major # b.major THEN CompareInt(a.major, b.major)
  ELSE IF a.minor # b.minor THEN CompareInt(a.minor, b.minor)
  ELSE CompareInt(a.patch, b.patch)

SemverCompare(a, b) ==
  IF compareMain(a, b) # 0 THEN compareMain(a, b) ELSE comparePre(a, b)

V200 == Version(2, 0, 0, <<>>)

\* a comparison that ignores the prerelease tag
usePrettierV2Defaults_mainOnly(v) == compareMain(v, V200) >= 0

\* semver.gte(v, "2.0.0")
usePrettierV2Defaults(v) == SemverCompare(v, V200) >= 0

----------------------------------------------------------------------------
(* getPrettierOptions: the synchronous part after the await *)

\* the properties lines 42-64 assign on vsOpts
VsOptFields ==
  {"arrowParens", "bracketSpacing", "endOfLine", "htmlWhitespaceSensitivity",
   "insertPragma", "jsxBracketSameLine", "jsxSingleQuote", "printWidth",
   "proseWrap", "quoteProps", "requirePragma", "semi", "singleQuote",
   "tabWidth", "trailingComma", "useTabs", "vueIndentScriptAndStyle"}

\* lines 42-64 replaced by a copy of the whole editor configuration
vsOpts_copyAll(vsCodeConfig, fallbackToVSCodeConfig, v2) ==
  IF fallbackToVSCodeConfig
  THEN Spread(vsCodeConfig,
         [f \in VsOptFields |->
            IF f \in {"arrowParens", "endOfLine", "trailingComma"} /\ ~v2
            THEN (CASE f = "arrowParens" -> "avoid"
                    [] f = "endOfLine" -> "auto"
                    [] OTHER -> "none")
            ELSE Get(vsCodeConfig, f)])
  ELSE EmptyObject

\* lines 42-64 run without the test of fallbackToVSCodeConfig
vsOpts_always(vsCodeConfig, fallbackToVSCodeConfig, v2) ==
  [f \in VsOptFields |->
     CASE f = "arrowParens"   -> IF v2 THEN Get(vsCodeConfig, f) ELSE "avoid"
       [] f = "endOfLine"     -> IF v2 THEN Get(vsCodeConfig, f) ELSE "auto"
       [] f = "trailingComma" -> IF v2 THEN Get(vsCodeConfig, f) ELSE "none"
       [] OTHER               -> Get(vsCodeConfig, f)]

\* vsOpts after lines 35-65, as line 74 spreads it
vsOpts(vsCodeConfig, fallbackToVSCodeConfig, v2) ==
  IF fallbackToVSCodeConfig
  THEN [f \in VsOptFields |->
          CASE f = "arrowParens"   -> IF v2 THEN Get(vsCodeConfig, f) ELSE "avoid"
            [] f = "endOfLine"     -> IF v2 THEN Get(vsCodeConfig, f) ELSE "auto"
            [] f = "trailingComma" -> IF v2 THEN Get(vsCodeConfig, f) ELSE "none"
            [] OTHER               -> Get(vsCodeConfig, f)]
  ELSE EmptyObject

\* { filepath: fileName, parser }
InjectedFields(fileName, parser) ==
  [f \in {"filepath", "parser"} |-> IF f = "filepath" THEN fileName ELSE parser]

\* (rangeFormattingOptions || {})
RangeOrEmpty(range) == IF range.present THEN range.fields ELSE EmptyObject

\* the object literal with the discovered configuration spread first
MergeOptions_configFirst(vs, fileName, parser, range, configOptions) ==
  Spread(Spread(Spread(vs, OrEmpty(configOptions)),
                InjectedFields(fileName, parser)),
         RangeOrEmpty(range))

\* the object literal of lines 73-82
MergeOptions(vs, fileName, parser, range, configOptions) ==
  Spread(Spread(Spread(vs, InjectedFields(fileName, parser)),
                RangeOrEmpty(range)),
         OrEmpty(configOptions))

FallbackMessage ==
  "No local configuration (i.e. .prettierrc or .editorconfig) detected, falling back to VS Code configuration"

DetectedMessage ==
  "Detected local configuration (i.e. .prettierrc or .editorconfig), VS Code configuration will not be used"

\* the two messages exchanged
LogMessage_swapped(fallbackToVSCodeConfig) ==
  IF fallbackToVSCodeConfig THEN DetectedMessage ELSE FallbackMessage

\* the argument of logInfo, lines 68-70
LogMessage(fallbackToVSCodeConfig) ==
  IF fallbackToVSCodeConfig THEN FallbackMessage ELSE DetectedMessage

----------------------------------------------------------------------------
(* results *)

NoResult ==
  [status |-> "pending", keys |-> {}, options |-> EmptyObject,
   error |-> Undefined, value |-> FALSE, thrown |-> Undefined]

\* getPrettierOptions: return { error }
ReturnError(e) == [NoResult EXCEPT !.status = "returned", !.keys = {"error"},
                                   !.error = e]

\* getPrettierOptions: return { options }
ReturnOptions(o) == [NoResult EXCEPT !.status = "returned",
                                     !.keys = {"options"}, !.options = o]

\* checkHasPrettierConfig: return <boolean>
ReturnBool(b) == [NoResult EXCEPT !.status = "returned", !.value = b]

\* the promise rejects
Throw(e) == [NoResult EXCEPT !.status = "threw", !.thrown = e]

\* IResolveConfigResult
NoResolved == [keys |-> {}, config |-> NullConfig, error |-> Undefined]

\* a catch block that returns { config: null } and drops the error
ResolveConfigResult_dropsError(outcome) ==
  [keys |-> {"config"}, config |-> outcome.config, error |-> Undefined]

\* resolveConfig, lines 108-113: what it returns for a discovery outcome
ResolveConfigResult(outcome) ==
  IF outcome.kind = "resolved"
  THEN [keys |-> {"config"}, config |-> outcome.config, error |-> Undefined]
  ELSE [keys |-> {"config", "error"}, config |-> NullConfig,
        error |-> outcome.raised]

\* const { config, error } = ... : a missing property destructures to undefined
ErrorOf(r) == IF "error" \in r.keys THEN r.error ELSE Undefined

ConfigOf(r) == r.config

----------------------------------------------------------------------------
(* inputs *)

Obj2(k1, v1, k2, v2) == [f \in {k1, k2} |-> IF f = k1 THEN v1 ELSE v2]

Obj3(k1, v1, k2, v2, k3, v3) == Spread(Obj2(k1, v1, k2, v2), Obj2(k3, v3, k3, v3))

\* the editor settings with prettier's own defaults
EditorDefaults ==
  [f \in VsOptFields |->
     CASE f = "arrowParens"               -> "always"
       [] f = "bracketSpacing"            -> "true"
       [] f = "endOfLine"                 -> "lf"
       [] f = "htmlWhitespaceSensitivity" -> "css"
       [] f = "printWidth"                -> "80"
       [] f = "proseWrap"                 -> "preserve"
       [] f = "quoteProps"                -> "as-needed"
       [] f = "semi"                      -> "true"
       [] f = "tabWidth"                  -> "2"
       [] f = "trailingComma"             -> "es5"
       [] OTHER                           -> "false"]

\* every setting changed, plus properties getPrettierOptions does not copy
EditorCustom ==
  Spread(
    [f \in VsOptFields |->
       CASE f = "arrowParens"               -> "always"
         [] f = "bracketSpacing"            -> "false"
         [] f = "endOfLine"                 -> "crlf"
         [] f = "htmlWhitespaceSensitivity" -> "strict"
         [] f = "printWidth"                -> "120"
         [] f = "proseWrap"                 -> "always"
         [] f = "quoteProps"                -> "consistent"
         [] f = "semi"                      -> "false"
         [] f = "tabWidth"                  -> "8"
         [] f = "trailingComma"             -> "all"
         [] OTHER                           -> "true"],
    [f \in {"filepath", "parser", "rangeStart", "plugins"} |->
       CASE f = "filepath"   -> "editor.js"
         [] f = "parser"     -> "flow"
         [] f = "rangeStart" -> "3"
         [] OTHER            -> "prettier-plugin-x"])

\* a partial editor configuration
EditorPartial == Obj3("tabWidth", "2", "semi", "true", "arrowParens", "always")

NoRange == [present |-> FALSE, fields |-> EmptyObject]

SomeRange == [present |-> TRUE, fields |-> Obj2("rangeStart", "0", "rangeEnd", "10")]

Rc == AlphaId(3)

Alpha == AlphaId(1)

GetArgs(files, parsers, editors, versions, ranges) ==
  [fileName : files, parser : parsers, vsCodeConfig : editors,
   prettierVersion : versions, resolveConfigOptions : {"{editorconfig:true}"},
   rangeFormattingOptions : ranges]

CheckArgs(files) ==
  [fileName : files, parser : {""}, vsCodeConfig : {EmptyObject},
   prettierVersion : {V200}, resolveConfigOptions : {UndefinedValue},
   rangeFormattingOptions : {NoRange}]

NoArgs == CHOOSE a \in CheckArgs({""}) : TRUE

Resolves(cfg) == [kind |-> "resolved", config |-> cfg, raised |-> Undefined]

Rejects(e) == [kind |-> "rejected", config |-> NullConfig, raised |-> e]

Pending == [kind |-> "pending", config |-> NullConfig, raised |-> Undefined]

\* inputs of the specification with concurrent calls
ConcGetArgs ==
  GetArgs({"a.js"}, {"babel"}, {EditorPartial, EditorCustom},
          {Version(1, 19, 0, <<>>), Version(2, 3, 1, <<>>)}, {NoRange})

ConcFiles == {"a.js", "src/b.ts"}

ConcOutcomes ==
  {Resolves(NullConfig), Resolves(FoundConfig(Obj2("tabWidth", "4", "semi", "false"))),
   Rejects(ErrorObject("invalid .prettierrc")), Rejects(Undefined)}

\* inputs of the specification with one call
OneGetArgs ==
  GetArgs({"a.js", "src/b.ts"}, {"babel", "typescript"},
          {EditorDefaults, EditorCustom, EditorPartial},
          {Version(1, 19, 0, <<>>), Version(2, 0, 0, <<Rc, NumId(1)>>), V200,
           Version(2, 3, 1, <<>>), Version(3, 0, 0, <<Alpha, NumId(0)>>)},
          {NoRange, SomeRange})

OneFiles == {"a.js", "src/b.ts"}

OneOutcomes ==
  {Resolves(NullConfig),
   Resolves(FoundConfig(EmptyObject)),
   Resolves(FoundConfig(Obj2("tabWidth", "4", "tabWidth", "4"))),
   Resolves(FoundConfig(Obj3("parser", "json", "filepath", "other.js", "semi", "false"))),
   Resolves(FoundConfig(Spread(Obj2("rangeStart", "5", "rangeEnd", "6"),
                               Obj3("arrowParens", "always", "endOfLine", "crlf",
                                    "trailingComma", "all")))),
   Rejects(ErrorObject("invalid .prettierrc")),
   Rejects([t |-> "string", v |-> "EACCES"]),
   Rejects(Undefined),
   Rejects([t |-> "string", v |-> ""])}

----------------------------------------------------------------------------
(* state *)

VARIABLES
  op,         \* op[c]: the method call c runs ("none" before it is made)
  pc,         \* pc[c]: "idle", "awaitDiscovery", "awaitResolve", "done"
  args,       \* args[c]: the arguments of call c
  discovery,  \* discovery[c]: the invocations of prettier.resolveConfig by c
  outcome,    \* outcome[c]: how c's prettier.resolveConfig promise settled
  resolved,   \* resolved[c]: the IResolveConfigResult c's resolveConfig returned
  result,     \* result[c]: what call c returned or threw
  log         \* the lines written to loggingService.logInfo, with their caller

vars == <<op, pc, args, discovery, outcome, resolved, result, log>>

InitOver(cs) ==
  /\ op = [c \in cs |-> "none"]
  /\ pc = [c \in cs |-> "idle"]
  /\ args = [c \in cs |-> NoArgs]
  /\ discovery = [c \in cs |-> <<>>]
  /\ outcome = [c \in cs |-> Pending]
  /\ resolved = [c \in cs |-> NoResolved]
  /\ result = [c \in cs |-> NoResult]
  /\ log = <<>>

Init == InitOver(Calls)

InitOne == InitOver(SingleCall)

\* getPrettierOptions is called: it calls resolveConfig(fileName,
\* resolveConfigOptions), which calls prettier.resolveConfig and suspends
CallGetPrettierOptions(c, A) ==
  /\ pc[c] = "idle"
  /\ \E a \in A :
       /\ args' = [args EXCEPT ![c] = a]
       /\ discovery' = [discovery EXCEPT ![c] =
            Append(@, [filePath |-> a.fileName, options |-> a.resolveConfigOptions])]
  /\ op' = [op EXCEPT ![c] = "getPrettierOptions"]
  /\ pc' = [pc EXCEPT ![c] = "awaitDiscovery"]
  /\ UNCHANGED <<outcome, resolved, result, log>>

\* checkHasPrettierConfig is called: it calls resolveConfig(filePath)
CallCheckHasPrettierConfig(c, F) ==
  /\ pc[c] = "idle"
  /\ \E a \in CheckArgs(F) :
       /\ args' = [args EXCEPT ![c] = a]
       /\ discovery' = [discovery EXCEPT ![c] =
            Append(@, [filePath |-> a.fileName, options |-> UndefinedValue])]
  /\ op' = [op EXCEPT ![c] = "checkHasPrettierConfig"]
  /\ pc' = [pc EXCEPT ![c] = "awaitDiscovery"]
  /\ UNCHANGED <<outcome, resolved, result, log>>

\* prettier.resolveConfig settles and resolveConfig returns its result
ResolveConfig(c, O) ==
  /\ pc[c] = "awaitDiscovery"
  /\ \E o \in O :
       /\ outcome' = [outcome EXCEPT ![c] = o]
       /\ resolved' = [resolved EXCEPT ![c] = ResolveConfigResult(o)]
  /\ pc' = [pc EXCEPT ![c] = "awaitResolve"]
  /\ UNCHANGED <<op, args, discovery, result, log>>

\* the result kept in a field of the resolver instead of a local: every call
\* reads what the first call that resolved stored
Destructured_shared(c) ==
  resolved[CHOOSE d \in DOMAIN pc :
             /\ pc[d] \in {"awaitResolve", "done"}
             /\ \A e \in DOMAIN pc : pc[e] \in {"awaitResolve", "done"} => d <= e]

\* the configuration and error call c continues with (line 26, line 92)
Destructured(c) == resolved[c]

\* getPrettierOptions resumes after its await and runs to its return
GetPrettierOptions(c) ==
  /\ pc[c] = "awaitResolve"
  /\ op[c] = "getPrettierOptions"
  /\ LET a == args[c]
         configOptions == ConfigOf(Destructured(c))
         error == ErrorOf(Destructured(c))
         fallbackToVSCodeConfig == configOptions.null
     IN  IF Truthy(error)
         THEN /\ result' = [result EXCEPT ![c] = ReturnError(error)]
              /\ UNCHANGED log
         ELSE /\ log' = Append(log, [by |-> c,
                                     msg |-> LogMessage(fallbackToVSCodeConfig)])
              /\ result' = [result EXCEPT ![c] = ReturnOptions(
                   MergeOptions(
                     vsOpts(a.vsCodeConfig, fallbackToVSCodeConfig,
                            usePrettierV2Defaults(a.prettierVersion)),
                     a.fileName, a.parser, a.rangeFormattingOptions,
                     configOptions))]
  /\ pc' = [pc EXCEPT ![c] = "done"]
  /\ UNCHANGED <<op, args, discovery, outcome, resolved>>

\* checkHasPrettierConfig resumes after its await and runs to its return
CheckHasPrettierConfig(c) ==
  /\ pc[c] = "awaitResolve"
  /\ op[c] = "checkHasPrettierConfig"
  /\ LET config == ConfigOf(Destructured(c))
         error == ErrorOf(Destructured(c))
     IN  result' = [result EXCEPT ![c] =
           IF Truthy(error) THEN Throw(error) ELSE ReturnBool(~config.null)]
  /\ pc' = [pc EXCEPT ![c] = "done"]
  /\ UNCHANGED <<op, args, discovery, outcome, resolved, log>>

Next ==
  \E c \in Calls :
    \/ CallGetPrettierOptions(c, ConcGetArgs)
    \/ CallCheckHasPrettierConfig(c, ConcFiles)
    \/ ResolveConfig(c, ConcOutcomes)
    \/ GetPrettierOptions(c)
    \/ CheckHasPrettierConfig(c)

Spec == Init /\ [][Next]_vars

NextOne ==
  \E c \in SingleCall :
    \/ CallGetPrettierOptions(c, OneGetArgs)
    \/ CallCheckHasPrettierConfig(c, OneFiles)
    \/ ResolveConfig(c, OneOutcomes)
    \/ GetPrettierOptions(c)
    \/ CheckHasPrettierConfig(c)

SpecOne == InitOne /\ [][NextOne]_vars

----------------------------------------------------------------------------
(* properties *)

AllCalls == DOMAIN pc

DoneGet(c) == pc[c] = "done" /\ op[c] = "getPrettierOptions"

DoneCheck(c) == pc[c] = "done" /\ op[c] = "checkHasPrettierConfig"

HasOptions(c) == result[c].status = "returned" /\ "options" \in result[c].keys

\* discovery returned the none-found sentinel / a configuration record / raised
NoneFound(c) == outcome[c].kind = "resolved" /\ outcome[c].config.null

Found(c) == outcome[c].kind = "resolved" /\ ~outcome[c].config.null

Raised(c) == outcome[c].kind = "rejected"

Discovered(c) == outcome[c].config.fields

\* the log lines call c wrote
LinesBy(c) == SelectSeq(log, LAMBDA l : l.by = c)

\* v >= 2.0.0 in semantic-version order, stated without semver's comparison:
\* a later major, or major 2 unless it is a prerelease of 2.0.0 itself
AtLeast200(v) ==
  \/ v.major > 2
  \/ v.major = 2 /\ (v.minor > 0 \/ v.patch > 0 \/ v.pre = <<>>)

GatedFields == {"arrowParens", "trailingComma", "endOfLine"}

GatedDefault(f) ==
  CASE f = "arrowParens" -> "avoid"
    [] f = "trailingComma" -> "none"
    [] OTHER -> "auto"

\* C1: every successful getPrettierOptions call returns options that have
\* filepath and parser, equal to the call's fileName and parser arguments,
\* whatever the discovered configuration contains.
C1_FilepathParserFromArguments ==
  \A c \in AllCalls :
    (DoneGet(c) /\ HasOptions(c)) =>
      /\ {"filepath", "parser"} \subseteq DOMAIN result[c].options
      /\ result[c].options["filepath"] = args[c].fileName
      /\ result[c].options["parser"] = args[c].parser

\* C2: when discovery returns a configuration record, the call returns
\* options in which every field of that record has the discovered value,
\* also when the editor configuration or the range options define it.
C2_DiscoveredFieldsWin ==
  \A c \in AllCalls :
    (DoneGet(c) /\ Found(c)) =>
      /\ HasOptions(c)
      /\ \A f \in DOMAIN Discovered(c) :
           /\ f \in DOMAIN result[c].options
           /\ result[c].options[f] = Discovered(c)[f]

C2_Witness ==
  \E c \in AllCalls :
    /\ DoneGet(c) /\ Found(c) /\ HasOptions(c)
    /\ args[c].rangeFormattingOptions.present
    /\ "rangeStart" \in DOMAIN Discovered(c)
    /\ "arrowParens" \in DOMAIN args[c].vsCodeConfig
    /\ result[c].options["rangeStart"] = "5"
    /\ args[c].rangeFormattingOptions.fields["rangeStart"] = "0"

\* C3: when discovery returns none-found, the returned options have filepath
\* and parser equal to the arguments, each of the 14 unconditional fields
\* equal to the editor configuration's value, the three gated fields equal to
\* the editor configuration's values when the version is >= 2.0.0, and no
\* other field of the editor configuration.
C3_FallbackCopiesEditorFields ==
  \A c \in AllCalls :
    (DoneGet(c) /\ NoneFound(c)) =>
      /\ HasOptions(c)
      /\ LET o == result[c].options
             e == args[c].vsCodeConfig
             r == RangeOrEmpty(args[c].rangeFormattingOptions)
         IN  /\ DOMAIN o = VsOptFields \cup {"filepath", "parser"} \cup DOMAIN r
             /\ o["filepath"] = args[c].fileName
             /\ o["parser"] = args[c].parser
             /\ \A f \in VsOptFields \ GatedFields : o[f] = Get(e, f)
             /\ AtLeast200(args[c].prettierVersion) =>
                  \A f \in GatedFields : o[f] = Get(e, f)
             /\ \A f \in DOMAIN r : o[f] = r[f]

C3_Witness ==
  \E c \in AllCalls :
    /\ DoneGet(c) /\ NoneFound(c) /\ HasOptions(c)
    /\ args[c].vsCodeConfig = EditorCustom
    /\ args[c].prettierVersion = Version(2, 3, 1, <<>>)
    /\ result[c].options["trailingComma"] = "all"
    /\ result[c].options["filepath"] = "src/b.ts"
    /\ "plugins" \notin DOMAIN result[c].options

\* C4: in a call that falls back to the editor configuration, arrowParens,
\* trailingComma and endOfLine equal the editor configuration's values for
\* every version >= 2.0.0, and "avoid", "none" and "auto" for every version
\* < 2.0.0, prereleases of 2.0.0 included.
C4_VersionGate ==
  \A c \in AllCalls :
    (DoneGet(c) /\ NoneFound(c)) =>
      /\ HasOptions(c)
      /\ \A f \in GatedFields :
           result[c].options[f] =
             IF AtLeast200(args[c].prettierVersion)
             THEN Get(args[c].vsCodeConfig, f)
             ELSE GatedDefault(f)

C4_Witness ==
  \E c \in AllCalls :
    /\ DoneGet(c) /\ NoneFound(c) /\ HasOptions(c)
    /\ args[c].prettierVersion = Version(2, 0, 0, <<Rc, NumId(1)>>)
    /\ args[c].vsCodeConfig["arrowParens"] = "always"
    /\ result[c].options["arrowParens"] = "avoid"

\* C5: checkHasPrettierConfig returns false iff discovery yields none-found,
\* true iff it yields a configuration record, and throws iff discovery
\* raises, whatever value is raised; the thrown value is the raised one.
C5_CheckHasConfigContract ==
  \A c \in AllCalls :
    DoneCheck(c) =>
      /\ (result[c].status = "threw") <=> Raised(c)
      /\ result[c].status = "threw" => result[c].thrown = outcome[c].raised
      /\ (result[c].status = "returned" /\ ~result[c].value) <=> NoneFound(c)
      /\ (result[c].status = "returned" /\ result[c].value) <=> Found(c)

\* C6 as claimed: every completed getPrettierOptions call, discovery errors
\* included, has written exactly one log line, the fallback message exactly
\* when discovery found no configuration and the detected message exactly
\* when it found one.
C6_OneLinePerCall ==
  \A c \in AllCalls :
    DoneGet(c) =>
      /\ Len(LinesBy(c)) = 1
      /\ (LinesBy(c)[1].msg = FallbackMessage) <=> ~Found(c)
      /\ (LinesBy(c)[1].msg = DetectedMessage) <=> Found(c)

\* C6 amended: a getPrettierOptions call that returns options has written
\* exactly one log line, the detected message exactly when discovery found
\* a configuration and the fallback message otherwise; a call that has not
\* completed, or completes with an error result, has written none,
\* and checkHasPrettierConfig writes none; this holds for every interleaving.
C6_OneLinePerReturnedOptions ==
  \A c \in AllCalls :
    IF DoneGet(c) /\ HasOptions(c)
    THEN /\ Len(LinesBy(c)) = 1
         /\ (LinesBy(c)[1].msg = DetectedMessage) <=> Found(c)
         /\ (LinesBy(c)[1].msg = FallbackMessage) <=> ~Found(c)
    ELSE LinesBy(c) = <<>>

C6_Witness ==
  /\ Len(log) = 2
  /\ log[1].by = 2 /\ log[1].msg = DetectedMessage
  /\ log[2].by = 1 /\ log[2].msg = FallbackMessage
  /\ DoneGet(1) /\ DoneGet(2) /\ NoneFound(1) /\ Found(2)

\* C7: when discovery raises, getPrettierOptions does not throw and returns
\* a result whose error is the raised value and which has no options; every
\* result carries exactly one of options and error.
C7_DiscoveryFailureReturned ==
  \A c \in AllCalls :
    DoneGet(c) =>
      /\ Raised(c) =>
           /\ result[c].status = "returned"
           /\ result[c].keys = {"error"}
           /\ result[c].error = outcome[c].raised
      /\ result[c].status = "returned" =>
           result[c].keys \in {{"options"}, {"error"}}

HasResolved(c) == pc[c] \in {"awaitResolve", "done"}

ConfigPopulated(c) == ~resolved[c].config.null

\* the error field is set
ErrorPopulated(c) == "error" \in resolved[c].keys

\* C8 as claimed: every outcome of resolveConfig has exactly one of config
\* and error populated.
C8_ExactlyOnePopulated ==
  \A c \in AllCalls :
    HasResolved(c) => (ConfigPopulated(c) <=> ~ErrorPopulated(c))

\* C8 amended: a successful discovery yields config equal to the returned
\* value (a record or the none-found sentinel) and no error field; a failed
\* discovery yields error equal to the raised value and config equal to the
\* none-found sentinel; config and error are never both populated.
C8_ConfigOrError ==
  \A c \in AllCalls :
    HasResolved(c) =>
      /\ ~Raised(c) => /\ resolved[c].keys = {"config"}
                       /\ resolved[c].config = outcome[c].config
                       /\ ~ErrorPopulated(c)
      /\ Raised(c) => /\ resolved[c].keys = {"config", "error"}
                      /\ resolved[c].error = outcome[c].raised
                      /\ ~ConfigPopulated(c)
      /\ ~(ConfigPopulated(c) /\ ErrorPopulated(c))

C8_Witness ==
  \E c \in AllCalls :
    /\ HasResolved(c) /\ Raised(c)
    /\ outcome[c].raised = ErrorObject("invalid .prettierrc")
    /\ resolved[c].error = ErrorObject("invalid .prettierrc")
    /\ resolved[c].config.null

\* C9: when discovery returns a configuration record, an empty one included,
\* the returned options hold exactly filepath, parser, the range options'
\* fields and the record's fields, each with the value of the last of these
\* layers that defines it and none from the editor configuration or the
\* pre-2.0.0 defaults; the detected message is logged, and
\* checkHasPrettierConfig returns true.
C9_EditorConfigUnusedWhenFound ==
  \A c \in AllCalls :
    /\ (DoneGet(c) /\ Found(c)) =>
         /\ HasOptions(c)
         /\ LET o == result[c].options
                d == Discovered(c)
                r == RangeOrEmpty(args[c].rangeFormattingOptions)
            IN  /\ DOMAIN o = {"filepath", "parser"} \cup DOMAIN r \cup DOMAIN d
                /\ \A f \in DOMAIN o :
                     o[f] = IF f \in DOMAIN d THEN d[f]
                            ELSE IF f \in DOMAIN r THEN r[f]
                            ELSE IF f = "filepath" THEN args[c].fileName
                            ELSE args[c].parser
         /\ LinesBy(c) = <<[by |-> c, msg |-> DetectedMessage]>>
    /\ (DoneCheck(c) /\ Found(c)) =>
         result[c].status = "returned" /\ result[c].value

C9_Witness ==
  \E c \in AllCalls :
    /\ DoneGet(c) /\ Found(c) /\ HasOptions(c)
    /\ Discovered(c) = EmptyObject
    /\ args[c].vsCodeConfig = EditorCustom
    /\ args[c].prettierVersion = Version(1, 19, 0, <<>>)
    /\ ~args[c].rangeFormattingOptions.present
    /\ DOMAIN result[c].options = {"filepath", "parser"}

\* the result a call's own arguments and own discovery outcome determine
OwnResult(o, a, out) ==
  LET r == ResolveConfigResult(out)
      fb == ConfigOf(r).null
  IN  IF o = "checkHasPrettierConfig"
      THEN IF Truthy(ErrorOf(r)) THEN Throw(ErrorOf(r)) ELSE ReturnBool(~fb)
      ELSE IF Truthy(ErrorOf(r)) THEN ReturnError(ErrorOf(r))
      ELSE ReturnOptions(
             MergeOptions(vsOpts(a.vsCodeConfig, fb,
                                 usePrettierV2Defaults(a.prettierVersion)),
                          a.fileName, a.parser, a.rangeFormattingOptions,
                          ConfigOf(r)))

\* C10: in every interleaving each call invokes discovery exactly once, with
\* its own file path, and its result is the one its own arguments and its
\* own discovery outcome determine, whatever the other calls did.
C10_CallsIndependent ==
  \A c \in AllCalls :
    /\ pc[c] = "idle" => discovery[c] = <<>>
    /\ pc[c] # "idle" =>
         /\ Len(discovery[c]) = 1
         /\ discovery[c][1].filePath = args[c].fileName
    /\ pc[c] = "done" => result[c] = OwnResult(op[c], args[c], outcome[c])
    /\ pc[c] # "done" => result[c] = NoResult

C10_Witness ==
  /\ pc[1] = "done" /\ pc[2] = "awaitResolve"
  /\ op[1] = "getPrettierOptions" /\ op[2] = "getPrettierOptions"
  /\ args[1] = args[2]
  /\ Found(2) /\ NoneFound(1)
  /\ HasOptions(1)
  /\ result[1].options["tabWidth"] = Get(args[1].vsCodeConfig, "tabWidth")

====
